---- MODULE Spec2Model ----
(***************************************************************************)
(* Argument-call bubbling of the Huff code generator                       *)
(* (huff_codegen/src/irgen/arg_calls.rs, fn bubble_arg_call).              *)
(*                                                                         *)
(* One compilation owns the fragment list `bytes`, the byte `offset` and   *)
(* the `jump_table`.  A call of bubble_arg_call is an activation record on *)
(* `stack`; a bubbling call pushes a further record, and the records are   *)
(* popped one by one when the innermost call has returned.                 *)
(***************************************************************************)
EXTENDS Integers, Sequences, FiniteSets, TLC

VARIABLES bytes, offset, jump_table, stack, result, ncalls

vars == <<bytes, offset, jump_table, stack, result, ncalls>>

(* ---- bounds ---- *)
\* deepest scope stack handed to a call
MaxScope == 3
\* deepest invocation stack handed to a call
MaxMis == 2
\* calls of bubble_arg_call made by one compilation
MaxCalls == 2

(* ---- primitive data ---- *)
None == <<>>
Some(v) == <<v>>

Last(s) == s[Len(s)]
\* &s[..s.len().saturating_sub(1)]
DropLast(s) == SubSeq(s, 1, Len(s) - 1)

Bytes32Len == 32

\* a [u8; 32] holding the big-endian bytes `tail` after leading zero bytes
Bytes32(tail) == [i \in 1..Bytes32Len |->
                    IF i <= Bytes32Len - Len(tail) THEN 0
                    ELSE tail[i - (Bytes32Len - Len(tail))]]

HexDigit == <<"0", "1", "2", "3", "4", "5", "6", "7",
              "8", "9", "a", "b", "c", "d", "e", "f">>

\* format!("{:02x}", b)
Hex2(b) == HexDigit[(b \div 16) + 1] \o HexDigit[(b % 16) + 1]

RECURSIVE HexFrom(_, _)
HexFrom(b, i) == IF i > Len(b) THEN "" ELSE Hex2(b[i]) \o HexFrom(b, i + 1)

\* bytes32_to_string(l, false): hex of the bytes from the first non-zero one,
\* and of the last byte alone when all are zero
bytes32_to_string(l) ==
    LET nz == {i \in 1..Len(l) : l[i] # 0}
        start == IF nz = {} THEN Len(l)
                 ELSE CHOOSE i \in nz : \A j \in nz : i <= j
    IN HexFrom(l, start)

\* format!("{:02x}{}", 95 + hex_literal.len() / 2, hex_literal)
PushBytes(l) ==
    LET hex_literal == bytes32_to_string(l)
    IN Hex2(95 + Len(hex_literal) \div 2) \o hex_literal

\* Opcode::from_str / Opcode::to_string on the mnemonics used here
OpcodeHex == ("add" :> "01") @@ ("stop" :> "00") @@ ("pop" :> "50")
IsOpcode(name) == name \in DOMAIN OpcodeHex
\* Opcode::Push2
Push2 == "61"
\* format!("{}xxxx", Opcode::Push2)
Placeholder == Push2 \o "xxxx"

(* ---- the AST handed to code generation ---- *)
Literal(l) == [tag |-> "Literal", lit |-> l]
FreeStoragePointer == [tag |-> "FreeStoragePointer"]
ArgCall(n) == [tag |-> "ArgCall", name |-> n]
Ident(n) == [tag |-> "Ident", name |-> n]

Lit2a == Bytes32(<<42>>)
Litff == Bytes32(<<255>>)

\* Contract.constants: "add" is also an opcode and a parameter of A,
\* "stop" is an underived storage pointer, an opcode and a parameter of B
contract == [constants |-> << [name |-> "add", value |-> Literal(Lit2a)],
                              [name |-> "stop", value |-> FreeStoragePointer] >>]

\* A(x, add) and B(y, z, stop)
MacroA == [name |-> "A",
           parameters |-> <<[name |-> Some("x")], [name |-> Some("add")]>>,
           span |-> <<"A">>]
MacroB == [name |-> "B",
           parameters |-> <<[name |-> Some("y")], [name |-> Some("z")], [name |-> Some("stop")]>>,
           span |-> <<"B">>]
Macros == {MacroA, MacroB}

MacroInvocation(n, a, s) == [macro_name |-> n, args |-> a, span |-> s]
\* A(0xff), A(<x>), A(lbl) and B(<x>), which supplies no argument for z
InvA_ff == MacroInvocation("A", <<Literal(Litff)>>, <<"A(0xff)">>)
InvA_x == MacroInvocation("A", <<ArgCall("x")>>, <<"A(<x>)">>)
InvA_lbl == MacroInvocation("A", <<Ident("lbl")>>, <<"A(lbl)">>)
InvB_x == MacroInvocation("B", <<ArgCall("x")>>, <<"B(<x>)">>)
Invocations == {InvA_ff, InvA_x, InvA_lbl, InvB_x}

\* names referenced in macro bodies: parameters, a constant, opcodes
ArgNames == {"x", "y", "z", "add", "stop", "pop"}

SeqsUpTo(S, n) == UNION {[1..k -> S] : k \in 0..n}
Scopes == SeqsUpTo(Macros, MaxScope)
\* mis: (index, invocation) pairs, indices in source order
MisStacks == {[i \in 1..Len(s) |-> <<i - 1, s[i]>>] : s \in SeqsUpTo(Invocations, MaxMis)}

(* ---- results ---- *)
NoResult == [tag |-> "none"]
Running == [tag |-> "running"]
Ok == [tag |-> "Ok"]
Err(k, s) == [tag |-> "Err", kind |-> k, span |-> s]
Panicked == [tag |-> "panic"]

Jump(l, s) == [label |-> l, bytecode_index |-> 0, span |-> s]

\* BTreeMap::insert: the value stored under the key is replaced
Insert(jt, k, v) == [j \in DOMAIN jt \cup {k} |-> IF j = k THEN v ELSE jt[j]]

\* contract.constants.iter().find(|const_def| const_def.name.eq(arg_name))
FindConstant(arg_name) ==
    LET hits == {i \in 1..Len(contract.constants) : contract.constants[i].name = arg_name}
    IN IF hits = {} THEN None
       ELSE Some(contract.constants[CHOOSE i \in hits : \A j \in hits : i <= j])

\* macro_def.parameters.iter().position(|r| r.name.as_ref().map_or(false, |s| s.eq(arg_name)))
Position(macro_def, arg_name) ==
    LET hits == {i \in 1..Len(macro_def.parameters) :
                    /\ macro_def.parameters[i].name # None
                    /\ macro_def.parameters[i].name[1] = arg_name}
    IN IF hits = {} THEN None ELSE Some(CHOOSE i \in hits : \A j \in hits : i <= j)

Frame(n, d, sc, m, o) ==
    [arg_name |-> n, macro_def |-> d, scope |-> sc, mis |-> m, starting_offset |-> o]

Return(r, b, o, jt) == [kind |-> "return", result |-> r, bytes |-> b, offset |-> o, jump_table |-> jt]
Recurse(f) == [kind |-> "call", frame |-> f]
Unwind == [kind |-> "panic"]

(* ---- bubble_arg_call, rung by rung ---- *)

\* the constant rung swallowing an underived storage pointer
ConstantRung_SkipsPointer(f, constant) ==
    IF constant.value.tag = "Literal"
    THEN LET push_bytes == PushBytes(constant.value.lit)
         IN Return(Ok,
                   Append(bytes, <<f.starting_offset, push_bytes>>),
                   offset + Len(push_bytes) \div 2,
                   jump_table)
    ELSE Return(Ok, bytes, offset, jump_table)

\* lines 28-47: the constant's value is pushed, or the storage pointer is refused
ConstantRung(f, constant) ==
    IF constant.value.tag = "Literal"
    THEN LET push_bytes == PushBytes(constant.value.lit)
         IN Return(Ok,
                   Append(bytes, <<f.starting_offset, push_bytes>>),
                   offset + Len(push_bytes) \div 2,
                   jump_table)
    ELSE Return(Err("StoragePointersNotDerived", <<>>), bytes, offset, jump_table)

\* lines 48-53: the opcode's byte
OpcodeRung(f) ==
    LET b == OpcodeHex[f.arg_name]
    IN Return(Ok, Append(bytes, <<f.starting_offset, b>>), offset + Len(b) \div 2, jump_table)

\* the literal argument advancing the offset by the hex length
LiteralArg_HexLength(f, l) ==
    LET b == PushBytes(l)
    IN Return(Ok, Append(bytes, <<f.starting_offset, b>>), offset + Len(b), jump_table)

\* lines 67-76: MacroArg::Literal
LiteralArg(f, l) ==
    LET b == PushBytes(l)
    IN Return(Ok, Append(bytes, <<f.starting_offset, b>>), offset + Len(b) \div 2, jump_table)

\* the invocation stack popped on every bubbling call
PopsInvocation_Always(f) == TRUE

\* line 99: is the top invocation the one of the current definition
PopsInvocation(f) == Last(f.mis)[2].macro_name = f.macro_def.name

\* the bubbling call keeping the last scope frame when no outer one is left
ArgCallArg_KeepsLastScope(f, ac) ==
    LET new_scope == IF Len(f.scope) <= 1 THEN f.scope ELSE DropLast(f.scope)
    IN IF new_scope = <<>>
       THEN Unwind
       ELSE LET bubbled_macro_invocation == Last(new_scope)
            IN IF f.mis = <<>>
               THEN Return(Err("MissingMacroInvocation", bubbled_macro_invocation.span),
                           bytes, offset, jump_table)
               ELSE Recurse(Frame(f.arg_name,
                                  bubbled_macro_invocation,
                                  new_scope,
                                  IF PopsInvocation(f) THEN DropLast(f.mis) ELSE f.mis,
                                  offset))

\* lines 77-122: MacroArg::ArgCall(ac), the bubbling call
ArgCallArg(f, ac) ==
    LET new_scope == DropLast(f.scope)
    IN IF new_scope = <<>>
       THEN Unwind  \* new_scope.last().unwrap() on an empty vector
       ELSE LET bubbled_macro_invocation == Last(new_scope)
            IN IF f.mis = <<>>
               THEN Return(Err("MissingMacroInvocation", bubbled_macro_invocation.span),
                           bytes, offset, jump_table)
               ELSE Recurse(Frame(f.arg_name,
                                  bubbled_macro_invocation,
                                  new_scope,
                                  IF PopsInvocation(f) THEN DropLast(f.mis) ELSE f.mis,
                                  offset))

\* lines 123-139: MacroArg::Ident(iden)
IdentArg(f, iden, macro_invoc) ==
    Return(Ok,
           Append(bytes, <<offset, Placeholder>>),
           offset + 3,
           Insert(jump_table, offset, <<Jump(iden, macro_invoc[2].span)>>))

\* the parameter rung treating a missing argument as fatal
ParameterRung_MissingIsFatal(f) ==
    LET macro_invoc == Last(f.mis)
        pos == Position(f.macro_def, f.arg_name)
    IN IF pos # None
       THEN IF pos[1] <= Len(macro_invoc[2].args)
            THEN LET arg == macro_invoc[2].args[pos[1]]
                 IN CASE arg.tag = "Literal" -> LiteralArg(f, arg.lit)
                      [] arg.tag = "ArgCall" -> ArgCallArg(f, arg.name)
                      [] arg.tag = "Ident" -> IdentArg(f, arg.name, macro_invoc)
            ELSE Return(Err("MissingMacroInvocation", macro_invoc[2].span),
                        bytes, offset, jump_table)
       ELSE Return(Ok, bytes, offset, jump_table)

\* lines 54-146: the name as a parameter of macro_def, its argument in the top invocation
ParameterRung(f) ==
    LET macro_invoc == Last(f.mis)
        pos == Position(f.macro_def, f.arg_name)
    IN IF pos # None
       THEN IF pos[1] <= Len(macro_invoc[2].args)
            THEN LET arg == macro_invoc[2].args[pos[1]]
                 IN CASE arg.tag = "Literal" -> LiteralArg(f, arg.lit)
                      [] arg.tag = "ArgCall" -> ArgCallArg(f, arg.name)
                      [] arg.tag = "Ident" -> IdentArg(f, arg.name, macro_invoc)
            ELSE Return(Ok, bytes, offset, jump_table)  \* FOUND IN MACRO DEF BUT NOT IN MACRO INVOCATION
       ELSE Return(Ok, bytes, offset, jump_table)       \* NOT IN ARG LIST

\* lines 147-160: the label call
LabelRung(f) ==
    LET new_span == IF f.mis # <<>> THEN Last(f.mis)[2].span ELSE <<>>
        key == IF f.mis # <<>> THEN Last(f.mis)[1] ELSE 0
    IN Return(Ok,
              Append(bytes, <<offset, Placeholder>>),
              offset + 3,
              Insert(jump_table, key, <<Jump(f.arg_name, new_span)>>))

\* the ladder with the opcode rung tried before the constants
bubble_arg_call_OpcodeFirst(f) ==
    LET constant == FindConstant(f.arg_name)
    IN IF IsOpcode(f.arg_name) THEN OpcodeRung(f)
       ELSE IF constant # None THEN ConstantRung(f, constant[1])
       ELSE IF f.mis # <<>> THEN ParameterRung(f)
       ELSE LabelRung(f)

\* lines 24-162: first matching rung
bubble_arg_call(f) ==
    LET constant == FindConstant(f.arg_name)
    IN IF constant # None THEN ConstantRung(f, constant[1])
       ELSE IF IsOpcode(f.arg_name) THEN OpcodeRung(f)
       ELSE IF f.mis # <<>> THEN ParameterRung(f)
       ELSE LabelRung(f)

\* the bubbling call popping the caller's own vectors instead of copies
CallerAfterBubbling_PopsInPlace(f) ==
    [f EXCEPT !.scope = DropLast(f.scope),
              !.mis = IF PopsInvocation(f) THEN DropLast(f.mis) ELSE f.mis]

\* lines 80, 107: the frames are popped on copies (Vec::from(&scope[..]),
\* Vec::from(&mis[..])); the vectors borrowed from the caller are only read
CallerAfterBubbling(f) == f

(* ---- the compilation ---- *)
Init ==
    /\ bytes = <<>>
    /\ offset = 0
    /\ jump_table = <<>>
    /\ stack = <<>>
    /\ result = NoResult
    /\ ncalls = 0

\* the code generator calls bubble_arg_call for an argument reference
Call ==
    /\ stack = <<>>
    /\ result.tag # "panic"
    /\ ncalls < MaxCalls
    /\ \E arg_name \in ArgNames, macro_def \in Macros, scope \in Scopes, mis \in MisStacks :
          \* the macro being expanded is the innermost definition in scope
          /\ scope # <<>> => macro_def = Last(scope)
          /\ stack' = <<Frame(arg_name, macro_def, scope, mis, offset)>>
    /\ result' = Running
    /\ ncalls' = ncalls + 1
    /\ UNCHANGED <<bytes, offset, jump_table>>

\* the body of the innermost call runs: it returns, panics or bubbles
Resolve ==
    /\ stack # <<>>
    /\ result.tag = "running"
    /\ LET out == bubble_arg_call(Last(stack))
       IN CASE out.kind = "return" ->
                 /\ bytes' = out.bytes
                 /\ offset' = out.offset
                 /\ jump_table' = out.jump_table
                 /\ result' = out.result
                 /\ stack' = stack
            [] out.kind = "call" ->
                 /\ stack' = Append([stack EXCEPT ![Len(stack)] = CallerAfterBubbling(@)],
                                    out.frame)
                 /\ UNCHANGED <<bytes, offset, jump_table, result>>
            [] out.kind = "panic" ->
                 /\ result' = Panicked
                 /\ UNCHANGED <<bytes, offset, jump_table, stack>>
    /\ UNCHANGED ncalls

\* a finished call hands its result to its caller (`return bubble_arg_call(..)`)
Unwinding ==
    /\ stack # <<>>
    /\ result.tag \in {"Ok", "Err"}
    /\ stack' = DropLast(stack)
    /\ UNCHANGED <<bytes, offset, jump_table, result, ncalls>>

Next == Call \/ Resolve \/ Unwinding

Spec == Init /\ [][Next]_vars

(* ---- vocabulary of the properties ---- *)

\* a call is on the stack and its innermost activation has finished
Finished == stack # <<>> /\ result.tag \in {"Ok", "Err", "panic"}

\* the innermost activation is about to run its body
AtBody == stack # <<>> /\ result.tag = "running"

\* the name reaches the parameter rung: no constant, no opcode, a top invocation
ReachesParameterRung(f) ==
    /\ FindConstant(f.arg_name) = None
    /\ ~IsOpcode(f.arg_name)
    /\ f.mis # <<>>

\* the argument the top invocation supplies for the name, None when there is none
SuppliedArg(f) ==
    LET pos == Position(f.macro_def, f.arg_name)
        args == Last(f.mis)[2].args
    IN IF pos # None /\ pos[1] <= Len(args) THEN Some(args[pos[1]]) ELSE None

\* the fragments a call starting at offset o has appended
AppendedSince(o) == {i \in 1..Len(bytes) : bytes[i][1] >= o}

\* the Literal the outermost caller supplied, following at each level the name
\* the ArgCall argument carries (None when the chain does not end in a Literal)
RECURSIVE ConcreteLiteral(_, _, _, _)
ConcreteLiteral(name, def, scope, mis) ==
    LET f == Frame(name, def, scope, mis, 0)
    IN IF ~ReachesParameterRung(f) \/ SuppliedArg(f) = None THEN None
       ELSE LET arg == SuppliedArg(f)[1]
            IN CASE arg.tag = "Literal" -> Some(arg.lit)
                 [] arg.tag = "Ident" -> None
                 [] arg.tag = "ArgCall" ->
                      IF Len(scope) <= 1 THEN None
                      ELSE ConcreteLiteral(arg.name,
                                           Last(DropLast(scope)),
                                           DropLast(scope),
                                           IF Last(mis)[2].macro_name = def.name
                                           THEN DropLast(mis) ELSE mis)

(* ---- C1 ---- *)
\* C1: when the name is a parameter whose argument in the top invocation is
\* ArgCall(inner) and following the inner names reaches a Literal supplied by
\* an outer caller, the call succeeds, appends exactly the push of that
\* Literal at its starting offset and advances the offset by its length.
C1_BubblingFixedPoint ==
    (/\ Finished
     /\ ReachesParameterRung(stack[1])
     /\ SuppliedArg(stack[1]) # None
     /\ SuppliedArg(stack[1])[1].tag = "ArgCall"
     /\ ConcreteLiteral(stack[1].arg_name, stack[1].macro_def,
                        stack[1].scope, stack[1].mis) # None)
    => LET f == stack[1]
           l == ConcreteLiteral(f.arg_name, f.macro_def, f.scope, f.mis)[1]
       IN /\ result.tag = "Ok"
          /\ Cardinality(AppendedSince(f.starting_offset)) = 1
          /\ Last(bytes) = <<f.starting_offset, PushBytes(l)>>
          /\ offset = f.starting_offset + Len(PushBytes(l)) \div 2

(* ---- C2 ---- *)
\* C2: a name that is neither a constant nor an opcode and, with a non-empty
\* invocation stack, not a parameter of the current definition is a label
\* reference: one PUSH2 placeholder at the current offset, one Jump labelled
\* with the name, offset advanced by 3.
C2_RungFourFallthrough ==
    [][(/\ AtBody
        /\ ReachesParameterRung(Last(stack))
        /\ Position(Last(stack).macro_def, Last(stack).arg_name) = None)
       => (/\ bytes' = Append(bytes, <<offset, Placeholder>>)
           /\ offset' = offset + 3
           /\ \E k \in DOMAIN jump_table' :
                 /\ Len(jump_table'[k]) = 1
                 /\ jump_table'[k][1].label = Last(stack).arg_name
           /\ result'.tag = "Ok")]_vars

C4_JumpTableKeying ==
    \A k \in DOMAIN jump_table :
        \E i \in 1..Len(bytes) : bytes[i] = <<k, Placeholder>>

(* ---- C5 ---- *)
\* C5: no step removes or replaces a fragment of the bytes list or a Jump of
\* the jump table: the old fragments stay where they are and every Jump
\* stays under its key.
C5_AppendOnly ==
    [][/\ Len(bytes) <= Len(bytes')
       /\ \A i \in 1..Len(bytes) : bytes'[i] = bytes[i]
       /\ \A k \in DOMAIN jump_table :
             /\ k \in DOMAIN jump_table'
             /\ \A j \in 1..Len(jump_table[k]) :
                   \E j2 \in 1..Len(jump_table'[k]) : jump_table'[k][j2] = jump_table[k][j]]_vars

(* ---- C6 ---- *)
\* byte length of a fragment's hex payload
FragLen(fr) == Len(fr[2]) \div 2

\* C6: from an empty list and offset 0 the fragments are in non-decreasing
\* offset order and gap-free: each fragment ends where the next begins, the
\* last one ends at the offset counter, and with no fragment the offset is 0
\* (so a call that appends nothing leaves the offset where it was).
C6_OffsetLengthConsistency ==
    /\ \A i \in 1..Len(bytes) : Len(bytes[i][2]) % 2 = 0
    /\ \A i \in 1..(Len(bytes) - 1) :
          /\ bytes[i][1] <= bytes[i + 1][1]
          /\ bytes[i][1] + FragLen(bytes[i]) = bytes[i + 1][1]
    /\ bytes # <<>> => Last(bytes)[1] + FragLen(Last(bytes)) = offset
    /\ bytes = <<>> => offset = 0

\* C6 witness: a second call, after a first one that appended a fragment, has
\* bubbled and appended a fragment of another length at a non-zero offset
C6_Witness ==
    /\ Finished
    /\ result.tag = "Ok"
    /\ Len(stack) = 2
    /\ Len(bytes) = 2
    /\ bytes[2][1] = stack[1].starting_offset
    /\ bytes[2][1] > 0
    /\ FragLen(bytes[1]) # FragLen(bytes[2])

(* ---- C7 ---- *)
\* C7: a name matching a constant whose value is still FreeStoragePointer
\* makes the call fail with StoragePointersNotDerived and leaves the bytes
\* list, the offset and the jump table as they were, whether or not the name
\* is also an opcode or a parameter.
C7_UnresolvedStoragePointer ==
    [][(/\ AtBody
        /\ FindConstant(Last(stack).arg_name) # None
        /\ FindConstant(Last(stack).arg_name)[1].value.tag = "FreeStoragePointer")
       => (/\ result'.tag = "Err"
           /\ result'.kind = "StoragePointersNotDerived"
           /\ stack' = stack
           /\ UNCHANGED <<bytes, offset, jump_table>>)]_vars

\* C7 witness: after an earlier call emitted a placeholder and its Jump, a
\* call for "stop" (storage pointer, opcode and parameter of the current
\* definition, with a top invocation) has failed
C7_Witness ==
    /\ Finished
    /\ result.tag = "Err"
    /\ result.kind = "StoragePointersNotDerived"
    /\ IsOpcode(Last(stack).arg_name)
    /\ Last(stack).mis # <<>>
    /\ Position(Last(stack).macro_def, Last(stack).arg_name) # None
    /\ bytes # <<>>
    /\ DOMAIN jump_table # {}
    /\ Last(stack).starting_offset = offset

(* ---- C8 ---- *)
\* C8: when an ArgCall argument is bubbled, the recursive call receives the
\* scope without its top frame, and the invocation stack without its top
\* frame exactly when the top invocation's macro name is the current
\* definition's name, otherwise the invocation stack as it is.
C8_BubblingPopRule ==
    [][(/\ AtBody
        /\ ReachesParameterRung(Last(stack))
        /\ SuppliedArg(Last(stack)) # None
        /\ SuppliedArg(Last(stack))[1].tag = "ArgCall"
        /\ Len(stack') = Len(stack) + 1)
       => LET f == Last(stack)
              g == Last(stack')
          IN /\ g.scope = DropLast(f.scope)
             /\ Last(f.mis)[2].macro_name = f.macro_def.name => g.mis = DropLast(f.mis)
             /\ Last(f.mis)[2].macro_name # f.macro_def.name => g.mis = f.mis
             /\ g.mis = DropLast(f.mis) => Last(f.mis)[2].macro_name = f.macro_def.name]_vars

\* C8 witness: two nested bubbling calls, the first with the top invocation
\* removed (it named the current definition), the second with the invocation
\* stack passed on unchanged (it named another macro)
C8_Witness ==
    /\ Len(stack) = 3
    /\ Last(stack[1].mis)[2].macro_name = stack[1].macro_def.name
    /\ stack[2].mis = DropLast(stack[1].mis)
    /\ stack[2].scope = DropLast(stack[1].scope)
    /\ Last(stack[2].mis)[2].macro_name # stack[2].macro_def.name
    /\ stack[3].mis = stack[2].mis
    /\ stack[3].scope = DropLast(stack[2].scope)

(* ---- C9 ---- *)
\* C9: when an ArgCall argument is bubbled with a scope stack shallower than
\* the invocation stack (a scope of depth 1 included), the call does not
\* abort: it continues with a recursive call whose definition is the last
\* frame of a scope that still holds a frame.
C9_ShallowScopeBubbling ==
    [][(/\ AtBody
        /\ ReachesParameterRung(Last(stack))
        /\ SuppliedArg(Last(stack)) # None
        /\ SuppliedArg(Last(stack))[1].tag = "ArgCall"
        /\ Last(stack).scope # <<>>
        /\ Len(Last(stack).scope) < Len(Last(stack).mis))
       => (/\ result'.tag # "panic"
           /\ Len(stack') = Len(stack) + 1
           /\ Last(stack').scope \in {Last(stack).scope, DropLast(Last(stack).scope)}
           /\ Last(stack').scope # <<>>
           /\ Last(stack').macro_def = Last(Last(stack').scope))]_vars

C11_ErrorsCarrySpan ==
    result.tag = "Err" => Len(result.span) >= 1

(* ---- C12 ---- *)
\* C12: a call of bubble_arg_call finishes, and the number of nested bubbling
\* calls it makes never exceeds the depth of the scope stack handed to the
\* initial call, also when an argument names itself at every level: every
\* run of the body either ends the call (result or panic) or makes one
\* bubbling call with a strictly shorter scope stack.
C12_BubblingTerminates ==
    /\ [](stack # <<>> => Len(stack) - 1 <= Len(stack[1].scope))
    /\ [][AtBody =>
            \/ result'.tag \in {"Ok", "Err", "panic"} /\ stack' = stack
            \/ /\ result' = result
               /\ Len(stack') = Len(stack) + 1
               /\ Len(Last(stack').scope) < Len(Last(stack).scope)]_vars

\* C12 witness: parameter x of A with the argument <x> at both levels of the
\* invocation stack: two nested bubbling calls under a scope of depth 3, then
\* the call finished
C12_Witness ==
    /\ Finished
    /\ Len(stack) = 3
    /\ stack[1].arg_name = "x"
    /\ Len(stack[1].scope) = 3
    /\ Len(stack[1].mis) = 2
    /\ \A i \in 1..Len(stack[1].mis) : stack[1].mis[i][2] = InvA_x
    /\ \A i \in 1..Len(stack) : stack[i].macro_def = MacroA

(* ---- C13 ---- *)
\* C13: the scope stack and the invocation stack an activation was handed
\* hold the same frames during and after every call made from it, whether
\* the call bubbles, returns Ok, returns an error or panics: no step changes
\* the stacks of an activation that stays on the call stack.
C13_CallerStacksUntouched ==
    [][(stack # <<>> /\ stack' # <<>>)
       => \A i \in 1..Len(stack) :
             i <= Len(stack') =>
                /\ stack'[i].scope = stack[i].scope
                /\ stack'[i].mis = stack[i].mis]_vars

\* C13 witness: a call that bubbled with the invocation stack popped for the
\* recursive call has returned Ok to the initial activation, whose scope and
\* invocation stack still hold two frames, the top invocation passing <x>
C13_Witness ==
    /\ Finished
    /\ result.tag = "Ok"
    /\ Len(stack) = 1
    /\ ReachesParameterRung(stack[1])
    /\ SuppliedArg(stack[1]) # None
    /\ SuppliedArg(stack[1])[1].tag = "ArgCall"
    /\ Last(stack[1].mis)[2].macro_name = stack[1].macro_def.name
    /\ Len(stack[1].mis) = 2
    /\ Len(stack[1].scope) >= 2
    /\ AppendedSince(stack[1].starting_offset) # {}

====
